---- MODULE Spec2Model ----
(***************************************************************************)
(* A model of suncal's solar engine (src/Sun.py) and of its calendar       *)
(* wrapper (src/index.py).                                                 *)
(*                                                                         *)
(* Python floats are modelled as decimal fixed-point numbers: a value v    *)
(* is the integer v * S, with S = 10^4.  Every product and quotient is     *)
(* rounded to the nearest unit, and is arranged so that no intermediate    *)
(* value leaves 32 bits.  Angles are degrees * S (or radians * S where     *)
(* the code works in radians), hours are hours * S.  The C library         *)
(* functions behind math.sin, math.cos, math.atan2, math.acos, math.sqrt   *)
(* and math.hypot are modelled by their power series on a reduced          *)
(* argument.  Integer expressions of the code (the day number, the         *)
(* day-of-year table) are modelled exactly.                                *)
(*                                                                         *)
(* The local variables of a function of the code are the parameters of     *)
(* the operators that model its successive statements: a statement that    *)
(* assigns a local is an operator that passes the value on.                *)
(***************************************************************************)
EXTENDS Integers, Sequences, FiniteSets, TLC

\* ------------------------------------------------------------------------
\* Fixed-point arithmetic
\* ------------------------------------------------------------------------

\* One unit of the fixed-point grid is 1/S.
S == 10^4

Abs(a) == IF a < 0 THEN -a ELSE a

Sign(a) == IF a < 0 THEN -1 ELSE 1

\* a / b for an integer b > 0, rounded to the nearest integer (half up).
RDiv(a, b) == (2 * a + b) \div (2 * b)

\* The product of two fixed-point values, a * b / S rounded to the nearest
\* unit; a is split so that the partial products stay within 32 bits
\* (|b| < 2 * 10^5 units).
MulS(a, b) == (a \div S) * b + (((a % S) * b + (S \div 2)) \div S)

\* The quotient of two fixed-point values, a * S / b rounded to the nearest
\* unit, b # 0 (|a| < 10^5 units).
DivS(a, b) == Sign(b) * RDiv(a * S, Abs(b))

\* pi, pi/2 and 2*pi in units.
Pi == RDiv(314159265, 10^4)

HalfPi == RDiv(157079633, 10^4)

TwoPi == RDiv(628318531, 10^4)

\* ------------------------------------------------------------------------
\* The math module
\* ------------------------------------------------------------------------

\* math.radians(x) = x * pi / 180, pi/180 = 0.0174 + 0.00005329.
Radians(x) == MulS(x, 174) + RDiv(MulS(x, 5329), S)

\* math.degrees(r) = r * 180 / pi, 180/pi = 57 + 0.2958.
Degrees(r) == r * 57 + MulS(r, 2958)

\* sin r for 0 <= r <= pi/2, by its power series through r^11.
SinSeries(r) ==
    LET r2 == MulS(r, r)
        t5 == S - RDiv(r2, 110)
        t4 == S - RDiv(MulS(r2, t5), 72)
        t3 == S - RDiv(MulS(r2, t4), 42)
        t2 == S - RDiv(MulS(r2, t3), 20)
        t1 == S - RDiv(MulS(r2, t2), 6)
    IN  MulS(r, t1)

\* The first-quadrant angle whose sine is |sin m|, for 0 <= m < 2 pi.
SinQuadrant(m) ==
    IF m <= HalfPi THEN m
    ELSE IF m <= Pi THEN Pi - m
    ELSE IF m <= Pi + HalfPi THEN m - Pi
    ELSE TwoPi - m

\* The sign of sin m, for 0 <= m < 2 pi.
SinSign(m) == IF m <= Pi THEN 1 ELSE -1

\* math.sin(r): r reduced to the first quadrant.
MathSin(r) == SinSign(r % TwoPi) * SinSeries(SinQuadrant(r % TwoPi))

\* math.cos(r) = sin(r + pi/2).
MathCos(r) == MathSin(r + HalfPi)

\* One step of the digit-by-digit square root: bit is added to r if the
\* square of the sum is still at most n (46340 is the largest integer whose
\* square fits in 32 bits).
SqrtStep(n, r, bit) ==
    IF r + bit <= 46340 /\ (r + bit) * (r + bit) <= n THEN r + bit ELSE r

\* The integer square root of n, bit by bit from 2^15 down.
IntSqrt(n) ==
    SqrtStep(n, SqrtStep(n, SqrtStep(n, SqrtStep(n,
    SqrtStep(n, SqrtStep(n, SqrtStep(n, SqrtStep(n,
    SqrtStep(n, SqrtStep(n, SqrtStep(n, SqrtStep(n,
    SqrtStep(n, SqrtStep(n, SqrtStep(n, SqrtStep(n, 0,
        32768), 16384), 8192), 4096), 2048), 1024), 512), 256),
        128), 64), 32), 16), 8), 4), 2), 1)

\* math.sqrt(v) for 0 <= v <= 20: the integer square root of v * S.
MathSqrt(v) == IntSqrt(v * S)

\* math.hypot(x, y)
MathHypot(x, y) == MathSqrt(MulS(x, x) + MulS(y, y))

\* atan u for 0 <= u <= tan(pi/8), by its power series through u^11.
AtanSeries(u) ==
    LET u2 == MulS(u, u)
        t5 == RDiv(S, 9) - MulS(u2, RDiv(S, 11))
        t4 == RDiv(S, 7) - MulS(u2, t5)
        t3 == RDiv(S, 5) - MulS(u2, t4)
        t2 == RDiv(S, 3) - MulS(u2, t3)
        t1 == S - MulS(u2, t2)
    IN  MulS(u, t1)

\* atan t for 0 <= t <= 1: atan t = pi/4 - atan((1 - t) / (1 + t)).
AtanUnit(t) ==
    IF t <= 4142 THEN AtanSeries(t)
    ELSE RDiv(Pi, 4) - AtanSeries(DivS(S - t, S + t))

\* atan(ay / ax) for ay, ax >= 0, not both 0, in [0, pi/2].
AtanQuadrant(ay, ax) ==
    IF ay <= ax THEN AtanUnit(DivS(ay, ax))
    ELSE HalfPi - AtanUnit(DivS(ax, ay))

\* The angle a of the first quadrant carried to the quadrant of (x, y).
AtanSigned(y, x, a) ==
    IF y < 0 THEN -(IF x < 0 THEN Pi - a ELSE a)
    ELSE IF x < 0 THEN Pi - a ELSE a

\* math.atan2(y, x), in (-pi, pi].
MathAtan2(y, x) ==
    IF x = 0 /\ y = 0 THEN 0
    ELSE AtanSigned(y, x, AtanQuadrant(Abs(y), Abs(x)))

\* math.acos(c) for -1 <= c <= 1; outside it the library raises ValueError
\* (math domain error), which the callers model.
MathAcos(c) == MathAtan2(MathSqrt(S - MulS(c, c)), c)

\* ------------------------------------------------------------------------
\* src/Sun.py: the trigonometric functions in degrees, the angle reducers
\* ------------------------------------------------------------------------

\* Sun.__sind
sind(x) == MathSin(Radians(x))

\* Sun.__cosd
cosd(x) == MathCos(Radians(x))

\* Sun.__acosd, for -1 <= x <= 1
acosd(x) == Degrees(MathAcos(x))

\* math.acos raises ValueError (math domain error) outside [-1, 1].
AcosDomainError(x) == x < -S \/ x > S

\* Sun.__atan2d
atan2d(y, x) == Degrees(MathAtan2(y, x))

\* A mutant of FloorRev: truncation towards zero instead of floor.
FloorRevTruncated(x) ==
    IF x >= 0 THEN x \div (360 * S) ELSE -((-x) \div (360 * S))

\* math.floor(x / 360.0): \div rounds towards minus infinity.
FloorRev(x) == x \div (360 * S)

\* Sun.__revolution: x - 360.0 * math.floor(x / 360.0)
revolution(x) == x - 360 * S * FloorRev(x)

\* A mutant of FloorRevHalf: math.ceil(x / 360.0 - 0.5), which keeps the
\* upper end of the range instead of the lower one.
FloorRevHalfCeil(x) == -((180 * S - x) \div (360 * S))

\* math.floor(x / 360.0 + 0.5)
FloorRevHalf(x) == (x + 180 * S) \div (360 * S)

\* Sun.__rev180: x - 360.0 * math.floor(x / 360.0 + 0.5)
rev180(x) == x - 360 * S * FloorRevHalf(x)

\* ------------------------------------------------------------------------
\* src/Sun.py: calendar arithmetic (integers, Python 2 floor division)
\* ------------------------------------------------------------------------

\* Sun.__daysSince2000Jan0
daysSince2000Jan0(y, m, d) ==
    367 * y - ((7 * (y + ((m + 9) \div 12))) \div 4) + ((275 * m) \div 9)
        + d - 730530

\* calendar.isleap
isleap(y) == y % 4 = 0 /\ (y % 100 # 0 \/ y % 400 = 0)

\* ------------------------------------------------------------------------
\* src/Sun.py: the orbital model.  d is a day number in units (days * S).
\* ------------------------------------------------------------------------

\* The whole days of d, for the slow secular terms.
WholeDays(d) == RDiv(d, S)

\* M = revolution(356.0470 + 0.9856002585 * d), the mean anomaly
MeanAnomaly(d) ==
    revolution(3560470 + MulS(d, 9856) + RDiv(WholeDays(d) * 2585, 10^6))

\* w = 282.9404 + 4.70935e-5 * d, the longitude of perihelion
PerihelionLongitude(d) == 2829404 + RDiv(WholeDays(d) * 4709, 10^4)

\* e = 0.016709 - 1.151e-9 * d, the eccentricity, in millionths
Eccentricity(d) == 16709 - RDiv(WholeDays(d) * 1151, 10^6)

\* E = M + math.degrees(e) * sind(M) * (1.0 + e * cosd(M))
EccentricAnomaly(M, e6) ==
    M + MulS(MulS(RDiv(e6 * 57296, 10^5), sind(M)),
             S + RDiv(e6 * cosd(M), 10^6))

\* x = cosd(E) - e
OrbitX(E, e6) == cosd(E) - RDiv(e6, 100)

\* y = math.sqrt(1.0 - e * e) * sind(E)
OrbitY(E, e6) == MulS(MathSqrt(S - RDiv(e6 * e6, 10^8)), sind(E))

\* A mutant of LongitudeWrap: the conditional subtraction left out.
LongitudeNoWrap(lon) == lon

\* if lon >= 360.0: lon -= 360.0
LongitudeWrap(lon) == IF lon >= 360 * S THEN lon - 360 * S ELSE lon

\* r = math.hypot(x, y), v = atan2d(y, x), lon = v + w: <<lon, r>>
SunposPolar(x, y, w) ==
    <<LongitudeWrap(atan2d(y, x) + w), MathHypot(x, y)>>

\* The true longitude and the radius vector from the mean elements.
SunposElements(M, w, e6) ==
    SunposPolar(OrbitX(EccentricAnomaly(M, e6), e6),
                OrbitY(EccentricAnomaly(M, e6), e6), w)

\* Sun.__sunpos: <<true longitude, distance>>
sunpos(d) ==
    SunposElements(MeanAnomaly(d), PerihelionLongitude(d), Eccentricity(d))

\* obl_ecl = 23.4393 - 3.563e-7 * d
obl_ecl(d) == 234393 - RDiv(WholeDays(d) * 3563, 10^6)

\* The spherical coordinates of the equatorial rectangular (x, y, z):
\* <<atan2d(y, x), atan2d(z, math.hypot(x, y)), r>>
Spherical(x, y, z, r) == <<atan2d(y, x), atan2d(z, MathHypot(x, y)), r>>

\* z = y * sind(obl_ecl), y = y * cosd(obl_ecl); x is unchanged
Equatorial(x, y, obl, r) ==
    Spherical(x, MulS(y, cosd(obl)), MulS(y, sind(obl)), r)

\* x = r * cosd(lon), y = r * sind(lon)
EclipticRectangular(lon, r, obl) ==
    Equatorial(MulS(r, cosd(lon)), MulS(r, sind(lon)), obl, r)

\* lon, r = sunpos(d)
SunRADecOf(pos, obl) == EclipticRectangular(pos[1], pos[2], obl)

\* Sun.__sunRADec: <<RA, declination, distance>>
sunRADec(d) == SunRADecOf(sunpos(d), obl_ecl(d))

\* Sun.__GMST0: revolution(180 + 356.0470 + 282.9404
\*                         + (0.9856002585 + 4.70935E-5) * d)
GMST0(d) ==
    revolution(1800000 + 3560470 + 2829404 + MulS(d, 9856)
                   + RDiv(WholeDays(d) * 4735, 10^4))

\* ------------------------------------------------------------------------
\* src/Sun.py: the rise/set solver and the day-length solver
\* ------------------------------------------------------------------------

\* What a call gives back: the exception it raised ("none" when it
\* returned), the value it returned, and the arguments it passed to
\* Sun.__acosd on the way.
Returned(v, acosArgs) == [raised |-> "none", value |-> v, acos |-> acosArgs]

Raised(e, acosArgs) == [raised |-> e, value |-> <<>>, acos |-> acosArgs]

\* d of 12h local mean solar time:
\* daysSince2000Jan0(year, month, day) + 0.5 - lon / 360.0
NoonDay(y, m, dd, lon) ==
    daysSince2000Jan0(y, m, dd) * S + (S \div 2) - RDiv(lon, 360)

\* A mutant of SouthHourAt: sidtime - sRA is not reduced by rev180.
SouthHourAtUnreduced(d, lon, sRA) ==
    12 * S - RDiv(revolution(GMST0(d) + 180 * S + lon) - sRA, 15)

\* tsouth = 12.0 - rev180(sidtime - sRA) / 15.0, with
\* sidtime = revolution(GMST0(d) + 180.0 + lon)
SouthHourAt(d, lon, sRA) ==
    12 * S - RDiv(rev180(revolution(GMST0(d) + 180 * S + lon) - sRA), 15)

\* The time when the Sun is at south, in hours UT.
SouthHour(y, m, dd, lon) ==
    SouthHourAt(NoonDay(y, m, dd, lon), lon,
                sunRADec(NoonDay(y, m, dd, lon))[1])

\* The altitude the Sun should cross, corrected to the upper limb by the
\* Sun's apparent radius 0.2666 / sr if upper_limb is non-zero.
LimbAltitude(altit, upper_limb, sr) ==
    IF upper_limb # 0 THEN altit - DivS(2666, sr) ELSE altit

\* The numerator and the denominator of cost in Sun.__sunriset, from the
\* Sun's declination.
SunrisetCost(lat, alt, sdec) ==
    <<sind(alt) - MulS(sind(lat), sind(sdec)), MulS(cosd(lat), cosd(sdec))>>

\* The same from rd = <<sRA, sdec, sr>>.
SunrisetCostAt(rd, lat, altit, upper_limb) ==
    SunrisetCost(lat, LimbAltitude(altit, upper_limb, rd[3]), rd[2])

\* The numerator and the denominator of cost in Sun.__sunriset.
SunrisetCostParts(y, m, dd, lon, lat, altit, upper_limb) ==
    SunrisetCostAt(sunRADec(NoonDay(y, m, dd, lon)), lat, altit, upper_limb)

\* A mutant of SunrisetArc: the two edge cases exchanged.
SunrisetArcSwapped(cost) ==
    IF cost >= S THEN <<"none", 12 * S, <<>> >>
    ELSE IF cost <= -S THEN <<"none", 0, <<>> >>
    ELSE <<"none", RDiv(acosd(cost), 15), <<cost>> >>

\* The diurnal arc of Sun.__sunriset for a given cost, in hours, with the
\* arguments passed to Sun.__acosd: <<raised, t, acos arguments>>.
SunrisetArc(cost) ==
    IF cost >= S THEN <<"none", 0, <<>> >>
    ELSE IF cost <= -S THEN <<"none", 12 * S, <<>> >>
    ELSE IF AcosDomainError(cost) THEN <<"ValueError", 0, <<cost>> >>
    ELSE <<"none", RDiv(acosd(cost), 15), <<cost>> >>

\* return (tsouth - t, tsouth + t), unless __acosd raised
SunrisetReturn(tsouth, arc) ==
    IF arc[1] # "none" THEN Raised(arc[1], arc[3])
    ELSE Returned(<<tsouth - arc[2], tsouth + arc[2]>>, arc[3])

\* The division that gives cost, and what follows it.
SunrisetSolve(tsouth, parts) ==
    IF parts[2] = 0 THEN Raised("ZeroDivisionError", <<>>)
    ELSE SunrisetReturn(tsouth, SunrisetArc(DivS(parts[1], parts[2])))

\* Sun.__sunriset from d and sRA, sdec, sr = sunRADec(d)
SunrisetAt(d, rd, lon, lat, altit, upper_limb) ==
    SunrisetSolve(SouthHourAt(d, lon, rd[1]),
                  SunrisetCostAt(rd, lat, altit, upper_limb))

\* Sun.__sunriset
sunriset(y, m, dd, lon, lat, altit, upper_limb) ==
    SunrisetAt(NoonDay(y, m, dd, lon), sunRADec(NoonDay(y, m, dd, lon)),
               lon, lat, altit, upper_limb)

\* The numerator and the denominator of cost in Sun.__daylen, from the
\* sine of the Sun's declination.
DaylenCost(sin_sdecl, lat, alt) ==
    <<sind(alt) - MulS(sind(lat), sin_sdecl),
      MulS(cosd(lat), MathSqrt(S - MulS(sin_sdecl, sin_sdecl)))>>

\* The same from pos = <<slon, sr>> and the obliquity of the ecliptic.
DaylenCostAt(pos, obl, lat, altit, upper_limb) ==
    DaylenCost(MulS(sind(obl), sind(pos[1])), lat,
               LimbAltitude(altit, upper_limb, pos[2]))

\* The numerator and the denominator of cost in Sun.__daylen.
DaylenCostParts(y, m, dd, lon, lat, altit, upper_limb) ==
    DaylenCostAt(sunpos(NoonDay(y, m, dd, lon)),
                 obl_ecl(NoonDay(y, m, dd, lon)), lat, altit, upper_limb)

\* A mutant of DaylenArc: the half arc is not doubled.
DaylenArcHalf(cost) ==
    IF cost >= S THEN <<"none", 0, <<>> >>
    ELSE IF cost <= -S THEN <<"none", 24 * S, <<>> >>
    ELSE <<"none", RDiv(acosd(cost), 15), <<cost>> >>

\* A mutant of DaylenArc: the edge cost <= -1 is not taken first.
DaylenArcNoLowEdge(cost) ==
    IF cost >= S THEN <<"none", 0, <<>> >>
    ELSE IF AcosDomainError(cost) THEN <<"ValueError", 0, <<cost>> >>
    ELSE <<"none", RDiv(2 * acosd(cost), 15), <<cost>> >>

\* A mutant of DaylenArc: the two edge cases exchanged.
DaylenArcSwapped(cost) ==
    IF cost >= S THEN <<"none", 24 * S, <<>> >>
    ELSE IF cost <= -S THEN <<"none", 0, <<>> >>
    ELSE <<"none", RDiv(2 * acosd(cost), 15), <<cost>> >>

\* The day length of Sun.__daylen for a given cost, in hours, with the
\* arguments passed to Sun.__acosd: <<raised, hours, acos arguments>>.
DaylenArc(cost) ==
    IF cost >= S THEN <<"none", 0, <<>> >>
    ELSE IF cost <= -S THEN <<"none", 24 * S, <<>> >>
    ELSE IF AcosDomainError(cost) THEN <<"ValueError", 0, <<cost>> >>
    ELSE <<"none", RDiv(2 * acosd(cost), 15), <<cost>> >>

\* The return of Sun.__daylen, unless __acosd raised
DaylenReturn(arc) ==
    IF arc[1] # "none" THEN Raised(arc[1], arc[3])
    ELSE Returned(arc[2], arc[3])

\* The division that gives cost, and what follows it.
DaylenSolve(parts) ==
    IF parts[2] = 0 THEN Raised("ZeroDivisionError", <<>>)
    ELSE DaylenReturn(DaylenArc(DivS(parts[1], parts[2])))

\* Sun.__daylen
daylen(y, m, dd, lon, lat, altit, upper_limb) ==
    DaylenSolve(DaylenCostParts(y, m, dd, lon, lat, altit, upper_limb))

\* The reference altitudes of the presets: -35/60, -6, -12 and -18 degrees.
RiseSetAltitude == RDiv(-35 * S, 60)

CivilAltitude == -6 * S

NauticalAltitude == -12 * S

AstronomicalAltitude == -18 * S

\* Sun.dayLength
dayLength(y, m, dd, lon, lat) ==
    daylen(y, m, dd, lon, lat, RiseSetAltitude, 1)

\* Sun.dayCivilTwilightLength
dayCivilTwilightLength(y, m, dd, lon, lat) ==
    daylen(y, m, dd, lon, lat, CivilAltitude, 0)

\* Sun.dayNauticalTwilightLength
dayNauticalTwilightLength(y, m, dd, lon, lat) ==
    daylen(y, m, dd, lon, lat, NauticalAltitude, 0)

\* Sun.dayAstronomicalTwilightLength
dayAstronomicalTwilightLength(y, m, dd, lon, lat) ==
    daylen(y, m, dd, lon, lat, AstronomicalAltitude, 0)

\* Sun.sunRiseSet
sunRiseSet(y, m, dd, lon, lat) ==
    sunriset(y, m, dd, lon, lat, RiseSetAltitude, 1)

\* r = r - 0.5, s = s + 0.5 on what Sun.__sunriset gave back
HalfHourWider(rs) ==
    IF rs.raised # "none" THEN rs
    ELSE Returned(<<rs.value[1] - (S \div 2), rs.value[2] + (S \div 2)>>,
                  rs.acos)

\* A mutant of aviationTime: the Sun's centre instead of its upper limb.
aviationTimeCentre(y, m, dd, lon, lat) ==
    HalfHourWider(sunriset(y, m, dd, lon, lat, RiseSetAltitude, 0))

\* Sun.aviationTime: r - 0.5, s + 0.5
aviationTime(y, m, dd, lon, lat) ==
    HalfHourWider(sunriset(y, m, dd, lon, lat, RiseSetAltitude, 1))

\* Sun.civilTwilight
civilTwilight(y, m, dd, lon, lat) ==
    sunriset(y, m, dd, lon, lat, CivilAltitude, 0)

\* Sun.nauticalTwilight
nauticalTwilight(y, m, dd, lon, lat) ==
    sunriset(y, m, dd, lon, lat, NauticalAltitude, 0)

\* A mutant of astronomicalTwilight: -8 degrees for -18 degrees.
astronomicalTwilightShallow(y, m, dd, lon, lat) ==
    sunriset(y, m, dd, lon, lat, -8 * S, 0)

\* Sun.astronomicalTwilight
astronomicalTwilight(y, m, dd, lon, lat) ==
    sunriset(y, m, dd, lon, lat, AstronomicalAltitude, 0)

\* ------------------------------------------------------------------------
\* src/Sun.py: solar altitude, equation of time and solar flux
\* ------------------------------------------------------------------------

\* The altitude 90.0 - latitude + dec of Sun.__solar_altitude, reflected
\* and clamped as the code does it.
AltitudeRange(altitude) ==
    IF altitude > 90 * S THEN 180 * S - altitude
    ELSE IF altitude < 0 THEN 0
    ELSE altitude

\* Sun.__solar_altitude
solar_altitude(latitude, y, m, dd) ==
    Returned(AltitudeRange(90 * S - latitude
                           + sunRADec(daysSince2000Jan0(y, m, dd) * S)[2]),
             <<>>)

\* A mutant of MonthStarts: the leap table in every fourth year (the Julian
\* calendar's rule).
MonthStartsEveryFourth(y) ==
    IF y % 4 = 0
    THEN <<0, 31, 60, 91, 121, 152, 182, 213, 244, 274, 305, 335, 366>>
    ELSE <<0, 31, 59, 90, 120, 151, 181, 212, 243, 273, 304, 334, 365>>

\* The days before each month, lMonth of Sun.__julian.
MonthStarts(y) ==
    IF isleap(y)
    THEN <<0, 31, 60, 91, 121, 152, 182, 213, 244, 274, 305, 335, 366>>
    ELSE <<0, 31, 59, 90, 120, 151, 181, 212, 243, 273, 304, 334, 365>>

\* Sun.__julian: lMonth[month - 1] + day
julian(y, m, dd) == MonthStarts(y)[m] + dd

\* 1 / b^2 for the bracket b of Sun.__solcons
InverseSquare(b) == DivS(S, MulS(b, b))

\* Sun.__solcons, dAlf in radians: the series has its coefficients in
\* units of 10^-6 and its sum in units of 10^-6.
solcons(dAlf) ==
    InverseSquare(RDiv(10^6 - RDiv(946 * MathSin(dAlf)
                                     + 16710 * MathCos(dAlf)
                                     + 149 * MathCos(2 * dAlf)
                                     + 29 * MathSin(3 * dAlf)
                                     + 344 * MathCos(4 * dAlf), S), 100))

\* n * fDivide with fDivide = 2 pi / 366 in a leap year, 2 pi / 365 in
\* another.
YearAngle(n, y) == RDiv(n * TwoPi, IF isleap(y) THEN 366 ELSE 365)

\* fEot of Sun.__equation_of_time in minutes
EotMinutes(fA) ==
    27 - MulS(MathSin(fA), 73430) + MulS(MathCos(fA), 5519)
       - MulS(MathSin(2 * fA), 94700) - MulS(MathCos(2 * fA), 30200)
       - MulS(MathSin(3 * fA), 3289) - MulS(MathCos(3 * fA), 758)
       - MulS(MathSin(4 * fA), 1935) - MulS(MathCos(4 * fA), 1245)

\* <<fEot, fR0r, <<fDeclsc1, fDeclsc2>> >> from fA and fRdecl
EquationOfTimeAt(fA, fRdecl, latitude) ==
    <<Radians(RDiv(EotMinutes(fA) * 15, 60)),
      solcons(fA) * 1367,
      <<MulS(sind(latitude), MathSin(fRdecl)),
        MulS(cosd(latitude), MathCos(fRdecl))>> >>

\* Sun.__equation_of_time: <<fEot, fR0r, <<fDeclsc1, fDeclsc2>> >>.
equation_of_time(y, m, dd, latitude) ==
    EquationOfTimeAt(
        YearAngle(julian(y, m, dd), y),
        MulS(4120, MathCos(YearAngle(julian(y, m, dd) + 10, y) - Pi)),
        latitude)

\* fSF = (tDeclsc[0] + tDeclsc[1]) * fR0r
FluxOf(eot) == MulS(eot[2], eot[3][1] + eot[3][2])

\* The declination-derived flux fSF of Sun.__get_max_solar_flux, W/m2.
DeclinationFlux(latitude, y, m, dd) ==
    FluxOf(equation_of_time(y, m, dd, latitude))

\* The attenuation polynomial -1.56e-12 fSF^4 + 5.972e-9 fSF^3
\* - 8.364e-6 fSF^2 + 5.183e-3 fSF - 0.435, evaluated in g = fSF / 1000.
AttenuationOf(g) ==
    - MulS(MulS(MulS(MulS(g, g), g), g), 15600)
    + MulS(MulS(MulS(g, g), g), 59720)
    - MulS(MulS(g, g), 83640)
    + MulS(g, 51830) - 4350

Attenuation(fSF) == AttenuationOf(RDiv(fSF, 1000))

\* fCoeff of Sun.__get_max_solar_flux
FluxCoeff(fSF) == IF fSF < 0 THEN 0 ELSE Attenuation(fSF)

\* A mutant of FluxClamp: no clamp.
FluxNoClamp(fSFT) == fSFT

\* fSFT of Sun.__get_max_solar_flux, clamped at 0
FluxClamp(fSFT) == IF fSFT < 0 THEN 0 ELSE fSFT

\* fSFT = fSF * fCoeff
FluxProduct(fSF) == MulS(fSF, FluxCoeff(fSF))

\* Sun.__get_max_solar_flux
get_max_solar_flux(latitude, y, m, dd) ==
    Returned(FluxClamp(FluxProduct(DeclinationFlux(latitude, y, m, dd))),
             <<>>)

\* ------------------------------------------------------------------------
\* The state: the arguments of a call, the call made and what it gave back
\* ------------------------------------------------------------------------

VARIABLES
    date,       \* <<year, month, day>>
    lon,        \* longitude, degrees * S, east positive
    lat,        \* latitude, degrees * S, north positive
    angle,      \* the argument of an angle reducer, degrees * S
    elapsed,    \* the days from 1999-12-31 to date, counted day by day
    call,       \* the function called, "none" before the call
    ret,        \* what the call gave back (Returned or Raised)
    suncal,     \* the Suncal object under construction (src/index.py)
    req         \* the request of the cal handler and its response

vars == <<date, lon, lat, angle, elapsed, call, ret, suncal, req>>

\* The grids the arguments are drawn from.
LatSteps == 12

LonSteps == 2

DaySteps == 1

Lats == {RDiv(180 * S * i, LatSteps) - 90 * S : i \in 0..LatSteps}

Lons == {RDiv(360 * S * i, LonSteps) - 180 * S : i \in 0..LonSteps}

Years == {1801, 2008, 2099}

Dates ==
    {<<y, m, 1 + RDiv(27 * i, DaySteps)>> :
        y \in Years, m \in 1..12, i \in 0..DaySteps}

NoCall == Returned(<<>>, <<>>)

\* No Suncal object, no request.
NoSuncal == [cal |-> "none"]

NoRequest == [handler |-> "none"]

Init ==
    /\ date \in Dates
    /\ lon \in Lons
    /\ lat \in Lats
    /\ angle = 0
    /\ elapsed = 0
    /\ call = "none"
    /\ ret = NoCall
    /\ suncal = NoSuncal
    /\ req = NoRequest

\* A call of a function of date, longitude and latitude.
Call(name, result) ==
    /\ call = "none"
    /\ call' = name
    /\ ret' = result
    /\ UNCHANGED <<date, lon, lat, angle, elapsed, suncal, req>>

SunRiseSet ==
    Call("sunRiseSet", sunRiseSet(date[1], date[2], date[3], lon, lat))

AviationTime ==
    Call("aviationTime", aviationTime(date[1], date[2], date[3], lon, lat))

CivilTwilight ==
    Call("civilTwilight", civilTwilight(date[1], date[2], date[3], lon, lat))

NauticalTwilight ==
    Call("nauticalTwilight",
         nauticalTwilight(date[1], date[2], date[3], lon, lat))

AstronomicalTwilight ==
    Call("astronomicalTwilight",
         astronomicalTwilight(date[1], date[2], date[3], lon, lat))

DayLength ==
    Call("dayLength", dayLength(date[1], date[2], date[3], lon, lat))

DayCivilTwilightLength ==
    Call("dayCivilTwilightLength",
         dayCivilTwilightLength(date[1], date[2], date[3], lon, lat))

DayNauticalTwilightLength ==
    Call("dayNauticalTwilightLength",
         dayNauticalTwilightLength(date[1], date[2], date[3], lon, lat))

DayAstronomicalTwilightLength ==
    Call("dayAstronomicalTwilightLength",
         dayAstronomicalTwilightLength(date[1], date[2], date[3], lon, lat))

SolarAltitude ==
    Call("solar_altitude", solar_altitude(lat, date[1], date[2], date[3]))

GetMaxSolarFlux ==
    Call("get_max_solar_flux",
         get_max_solar_flux(lat, date[1], date[2], date[3]))

\* Sun.__sunpos at the d of the rise/set solver, as Sun.__sunRADec and
\* Sun.__daylen call it.
Sunpos ==
    Call("sunpos",
         Returned(sunpos(NoonDay(date[1], date[2], date[3], lon)), <<>>))

Next ==
    \/ SunRiseSet
    \/ AviationTime
    \/ CivilTwilight
    \/ NauticalTwilight
    \/ AstronomicalTwilight
    \/ DayLength
    \/ DayCivilTwilightLength
    \/ DayNauticalTwilightLength
    \/ DayAstronomicalTwilightLength
    \/ SolarAltitude
    \/ GetMaxSolarFlux
    \/ Sunpos

Spec == Init /\ [][Next]_vars

\* ------------------------------------------------------------------------
\* Properties of the solvers (specification Spec)
\* ------------------------------------------------------------------------

ClockCalls ==
    {"sunRiseSet", "civilTwilight", "nauticalTwilight",
     "astronomicalTwilight"}

LengthCalls ==
    {"dayLength", "dayCivilTwilightLength", "dayNauticalTwilightLength",
     "dayAstronomicalTwilightLength"}

\* The altitude threshold and the upper-limb flag of a preset.
PresetAltitude(name) ==
    CASE name \in {"sunRiseSet", "aviationTime", "dayLength"}
            -> RiseSetAltitude
      [] name \in {"civilTwilight", "dayCivilTwilightLength"}
            -> CivilAltitude
      [] name \in {"nauticalTwilight", "dayNauticalTwilightLength"}
            -> NauticalAltitude
      [] OTHER -> AstronomicalAltitude

PresetLimb(name) ==
    IF name \in {"sunRiseSet", "aviationTime", "dayLength"} THEN 1 ELSE 0

\* Numerator and denominator of cosHourAngle for the call of the state.
CallCostParts ==
    IF call \in LengthCalls
    THEN DaylenCostParts(date[1], date[2], date[3], lon, lat,
                         PresetAltitude(call), PresetLimb(call))
    ELSE SunrisetCostParts(date[1], date[2], date[3], lon, lat,
                           PresetAltitude(call), PresetLimb(call))

\* C1: whenever the denominator of cosHourAngle is non-zero, each of the
\* four clock-time solvers returns (southHour - t, southHour + t), with
\* t = 0 if cosHourAngle >= 1, t = 12 if cosHourAngle <= -1 and
\* t = arccos(cosHourAngle) / 15 otherwise.
C1_RiseSetPair ==
    call \in ClockCalls =>
        LET parts == CallCostParts
            cost == DivS(parts[1], parts[2])
            tsouth == SouthHour(date[1], date[2], date[3], lon)
            t == IF cost >= S THEN 0
                 ELSE IF cost <= -S THEN 12 * S
                 ELSE RDiv(acosd(cost), 15)
        IN  parts[2] # 0 =>
                /\ ret.raised = "none"
                /\ ret.value = <<tsouth - t, tsouth + t>>

\* C1 witness: a twilight call that took the arccos branch.
C1_Witness ==
    /\ call = "civilTwilight"
    /\ ret.raised = "none"
    /\ Len(ret.acos) = 1
    /\ ret.value[1] < ret.value[2]

\* C2: whenever the denominator of cosHourAngle is non-zero, each of the
\* four day-length solvers returns a value in [0, 24]: 0 if
\* cosHourAngle >= 1, 24 if cosHourAngle <= -1, and otherwise
\* 2/15 * arccos(cosHourAngle), which is strictly between 0 and 24.
C2_DayLengthRange ==
    call \in LengthCalls =>
        LET parts == CallCostParts
            cost == DivS(parts[1], parts[2])
        IN  parts[2] # 0 =>
                /\ ret.raised = "none"
                /\ ret.value >= 0 /\ ret.value <= 24 * S
                /\ cost >= S => ret.value = 0
                /\ cost <= -S => ret.value = 24 * S
                /\ (cost > -S /\ cost < S) =>
                      /\ ret.value = RDiv(2 * acosd(cost), 15)
                      /\ ret.value > 0 /\ ret.value < 24 * S

\* C2 witness: a day length of exactly 24 hours.
C2_Witness ==
    /\ call = "dayLength"
    /\ ret.raised = "none"
    /\ ret.value = 24 * S
    /\ lat > 0

\* C3: whenever the denominator of cosHourAngle is non-zero, the rise/set
\* solver and the day-length solver raise nothing, and every argument they
\* pass to arccos is strictly between -1 and 1.
C3_AcosInDomain ==
    call \in ClockCalls \cup LengthCalls =>
        (CallCostParts[2] # 0 =>
            /\ ret.raised = "none"
            /\ \A i \in DOMAIN ret.acos :
                  ret.acos[i] > -S /\ ret.acos[i] < S)

\* C3 witness: a day-length call that reached arccos.
C3_Witness ==
    /\ call = "dayNauticalTwilightLength"
    /\ ret.raised = "none"
    /\ Len(ret.acos) = 1

\* C4: aviationTime returns (rise - 0.5, set + 0.5) for the pair
\* (rise, set) that sunRiseSet returns for the same date, longitude and
\* latitude, and raises exactly when sunRiseSet raises.
C4_AviationHalfHour ==
    call = "aviationTime" =>
        LET rs == sunRiseSet(date[1], date[2], date[3], lon, lat)
        IN  /\ ret.raised = rs.raised
            /\ rs.raised = "none" =>
                  ret.value = <<rs.value[1] - (S \div 2),
                                rs.value[2] + (S \div 2)>>

\* C4 witness: an aviation call on a day the Sun stays below the horizon
\* (rise = set, so the aviation times are one hour apart).
C4_Witness ==
    /\ call = "aviationTime"
    /\ ret.raised = "none"
    /\ ret.acos = <<>>
    /\ ret.value[2] - ret.value[1] = S

\* The first components (dawn times) of the four clock-time solvers on
\* the arguments of the state, and whether all four crossed (no degenerate
\* arc, nothing raised).
Dawn(r) == r.value[1]

NormalCycle(rs, civ, nau, ast) ==
    \A r \in {rs, civ, nau, ast} : r.raised = "none" /\ Len(r.acos) = 1

\* C5 as stated: with a normal day/night cycle, civil dawn <= nautical
\* dawn <= astronomical dawn <= sunrise.
C5_OrderAsStated ==
    (call = "sunRiseSet" /\ ret.raised = "none" /\ Len(ret.acos) = 1) =>
        LET civ == civilTwilight(date[1], date[2], date[3], lon, lat)
            nau == nauticalTwilight(date[1], date[2], date[3], lon, lat)
            ast == astronomicalTwilight(date[1], date[2], date[3], lon, lat)
        IN  NormalCycle(ret, civ, nau, ast) =>
                /\ Dawn(civ) <= Dawn(nau)
                /\ Dawn(nau) <= Dawn(ast)
                /\ Dawn(ast) <= Dawn(ret)

\* C5 amended: with a normal day/night cycle, astronomical dawn <=
\* nautical dawn <= civil dawn <= sunrise.
C5_DawnOrder ==
    (call = "sunRiseSet" /\ ret.raised = "none" /\ Len(ret.acos) = 1) =>
        LET civ == civilTwilight(date[1], date[2], date[3], lon, lat)
            nau == nauticalTwilight(date[1], date[2], date[3], lon, lat)
            ast == astronomicalTwilight(date[1], date[2], date[3], lon, lat)
        IN  NormalCycle(ret, civ, nau, ast) =>
                /\ Dawn(ast) <= Dawn(nau)
                /\ Dawn(nau) <= Dawn(civ)
                /\ Dawn(civ) <= Dawn(ret)

\* C5 witness: a sunrise on a day when all four thresholds are crossed.
C5_Witness ==
    /\ call = "sunRiseSet"
    /\ NormalCycle(ret,
                   civilTwilight(date[1], date[2], date[3], lon, lat),
                   nauticalTwilight(date[1], date[2], date[3], lon, lat),
                   astronomicalTwilight(date[1], date[2], date[3], lon, lat))

\* C6 as stated: the solar altitude returned is in [0, 180].
C6_AltitudeRange ==
    call = "solar_altitude" => ret.value >= 0 /\ ret.value <= 180 * S

\* C7: get_max_solar_flux returns a value >= 0: 0 when fSF is negative,
\* 0 when fSF times the attenuation polynomial is negative, and that
\* product otherwise.
C7_FluxNonNegative ==
    call = "get_max_solar_flux" =>
        LET fSF == DeclinationFlux(lat, date[1], date[2], date[3])
            product == MulS(fSF, Attenuation(fSF))
        IN  /\ ret.raised = "none"
            /\ ret.value >= 0
            /\ fSF < 0 => ret.value = 0
            /\ (fSF >= 0 /\ product < 0) => ret.value = 0
            /\ (fSF >= 0 /\ product >= 0) => ret.value = product

\* C7 witness: a flux call whose product of a non-negative fSF and a
\* negative attenuation was clamped to 0.
C7_Witness ==
    /\ call = "get_max_solar_flux"
    /\ ret.value = 0
    /\ LET fSF == DeclinationFlux(lat, date[1], date[2], date[3])
       IN  fSF > 0 /\ Attenuation(fSF) < 0

\* v + w of Sun.__sunpos for the d of the state: the true anomaly and the
\* longitude of perihelion, <<v, w>>.
CallAnomaly ==
    LET d == NoonDay(date[1], date[2], date[3], lon)
        E == EccentricAnomaly(MeanAnomaly(d), Eccentricity(d))
    IN  <<atan2d(OrbitY(E, Eccentricity(d)), OrbitX(E, Eccentricity(d))),
          PerihelionLongitude(d)>>

\* C12: for every d of a date in 1801-2099 and a longitude in [-180, 180],
\* with the true anomaly v in [-180, 180], the true longitude that sunpos
\* returns is v + w less a whole number of turns (none or one), and is
\* >= 0 and < 360.
C12_TrueLongitude ==
    call = "sunpos" =>
        LET vw == CallAnomaly
            v == vw[1]
            w == vw[2]
        IN  (v >= -180 * S /\ v <= 180 * S) =>
                /\ ret.raised = "none"
                /\ ret.value[1] >= 0 /\ ret.value[1] < 360 * S
                /\ ret.value[1] = revolution(v + w)
                /\ ret.value[1] \in {v + w, v + w - 360 * S}

\* C12 witness: a true longitude that took the subtraction of 360.
C12_Witness ==
    /\ call = "sunpos"
    /\ CallAnomaly[1] <= 180 * S
    /\ CallAnomaly[1] + CallAnomaly[2] >= 360 * S
    /\ ret.value[1] = CallAnomaly[1] + CallAnomaly[2] - 360 * S

\* The clock-time solver on the arguments of the state, with the altitude
\* and the upper-limb flag of the preset of the call.
CallSunriset ==
    sunriset(date[1], date[2], date[3], lon, lat,
             PresetAltitude(call), PresetLimb(call))

\* The cosHourAngle of the clock-time solver for the same arguments.
CallSunrisetCostParts ==
    SunrisetCostParts(date[1], date[2], date[3], lon, lat,
                      PresetAltitude(call), PresetLimb(call))

\* Two values of cosHourAngle that are the same, or that are both in the
\* always-below case, or both in the always-above case.
SameCost(c1, c2) ==
    \/ c1 = c2
    \/ c1 >= S /\ c2 >= S
    \/ c1 <= -S /\ c2 <= -S

\* C13: for each of the four presets, when the day-length solver and the
\* clock-time solver have the same cosHourAngle, the day length is
\* set - rise of the clock-time solver, to one unit of the grid (the two
\* solvers round their division by 15 separately): exactly 0 in the
\* always-below case and exactly 24 in the always-above case.
C13_LengthIsSetMinusRise ==
    call \in LengthCalls =>
        LET dparts == CallCostParts
            sparts == CallSunrisetCostParts
            rs == CallSunriset
        IN  (dparts[2] # 0 /\ sparts[2] # 0) =>
            LET dcost == DivS(dparts[1], dparts[2])
                scost == DivS(sparts[1], sparts[2])
                span == rs.value[2] - rs.value[1]
            IN  SameCost(dcost, scost) =>
                    /\ ret.raised = "none" /\ rs.raised = "none"
                    /\ Abs(ret.value - span) <= 1
                    /\ dcost >= S => (ret.value = 0 /\ span = 0)
                    /\ dcost <= -S => (ret.value = 24 * S /\ span = 24 * S)

\* C13 witness: a day length from the arccos branch, with the very same
\* cosHourAngle in both solvers.
C13_Witness ==
    /\ call = "dayCivilTwilightLength"
    /\ Len(ret.acos) = 1
    /\ CallSunriset.acos = ret.acos
    /\ ret.value > 0

\* C14: whenever the rise/set solver returns, rise <= set, set - rise <= 24,
\* the midpoint of rise and set is southHour, southHour lies in (0, 24],
\* rise lies in (-12, 24] and set lies in (0, 36].
C14_RiseSetBounds ==
    (call \in ClockCalls /\ ret.raised = "none") =>
        LET tsouth == SouthHour(date[1], date[2], date[3], lon)
            rise == ret.value[1]
            set == ret.value[2]
        IN  /\ rise <= set
            /\ set - rise <= 24 * S
            /\ rise + set = 2 * tsouth
            /\ tsouth > 0 /\ tsouth <= 24 * S
            /\ rise > -12 * S /\ rise <= 24 * S
            /\ set > 0 /\ set <= 36 * S

\* C14 witness: a rise before midnight of the day before (a negative
\* hour), from the arccos branch.
C14_Witness ==
    /\ call = "sunRiseSet"
    /\ ret.raised = "none"
    /\ Len(ret.acos) = 1
    /\ ret.value[1] < 0
    /\ ret.value[2] > 0

\* ------------------------------------------------------------------------
\* The angle reducers on their own (specification SpecAngle)
\* ------------------------------------------------------------------------

\* The arguments: every multiple of 45 degrees up to MaxEighths of them,
\* and the values up to MaxOffset units on either side of each.
MaxEighths == 20

MaxOffset == 2

\* The whole turns a periodicity check adds to an argument.
MaxTurns == 3

Angles ==
    {q * 45 * S + e : q \in -MaxEighths..MaxEighths,
                      e \in -MaxOffset..MaxOffset}

InitAngle ==
    /\ angle \in Angles
    /\ date = <<2000, 1, 1>>
    /\ lon = 0
    /\ lat = 0
    /\ elapsed = 0
    /\ call = "none"
    /\ ret = NoCall
    /\ suncal = NoSuncal
    /\ req = NoRequest

Revolution == Call("revolution", Returned(revolution(angle), <<>>))

Rev180 == Call("rev180", Returned(rev180(angle), <<>>))

NextAngle == Revolution \/ Rev180

SpecAngle == InitAngle /\ [][NextAngle]_vars

FirstYear == 1801

LastYear == 2099

\* The days of a month of the Gregorian calendar.
DaysInMonth(y, m) ==
    IF m = 2 THEN (IF isleap(y) THEN 29 ELSE 28)
    ELSE IF m \in {4, 6, 9, 11} THEN 30
    ELSE 31

\* date + timedelta(days=1)
NextDate(dt) ==
    IF dt[3] < DaysInMonth(dt[1], dt[2]) THEN <<dt[1], dt[2], dt[3] + 1>>
    ELSE IF dt[2] < 12 THEN <<dt[1], dt[2] + 1, 1>>
    ELSE <<dt[1] + 1, 1, 1>>

\* date - timedelta(days=1)
PrevDate(dt) ==
    IF dt[3] > 1 THEN <<dt[1], dt[2], dt[3] - 1>>
    ELSE IF dt[2] > 1 THEN <<dt[1], dt[2] - 1, DaysInMonth(dt[1], dt[2] - 1)>>
    ELSE <<dt[1] - 1, 12, 31>>

\* The days from a date (not a 29th of February) to the same date of the
\* year after: 366 if a 29th of February lies between them.
DaysToNextYear(dt) ==
    IF (dt[2] <= 2 /\ isleap(dt[1])) \/ (dt[2] >= 3 /\ isleap(dt[1] + 1))
    THEN 366 ELSE 365

\* 2000 Jan 1 is day 1 after 2000 Jan 0.0 = 1999 Dec 31.
InitCal ==
    /\ date = <<2000, 1, 1>>
    /\ elapsed = 1
    /\ lon = 0
    /\ lat = 0
    /\ angle = 0
    /\ call = "none"
    /\ ret = NoCall
    /\ suncal = NoSuncal
    /\ req = NoRequest

\* The calendar moves on by a day.
Tomorrow ==
    /\ call = "none"
    /\ date # <<LastYear, 12, 31>>
    /\ date' = NextDate(date)
    /\ elapsed' = elapsed + 1
    /\ UNCHANGED <<lon, lat, angle, call, ret, suncal, req>>

\* The calendar moves back by a day.
Yesterday ==
    /\ call = "none"
    /\ date # <<FirstYear, 1, 1>>
    /\ date' = PrevDate(date)
    /\ elapsed' = elapsed - 1
    /\ UNCHANGED <<lon, lat, angle, call, ret, suncal, req>>

\* The calendar moves on by a year.
YearLater ==
    /\ call = "none"
    /\ date[1] < LastYear
    /\ date[3] <= 28
    /\ date' = <<date[1] + 1, date[2], date[3]>>
    /\ elapsed' = elapsed + DaysToNextYear(date)
    /\ UNCHANGED <<lon, lat, angle, call, ret, suncal, req>>

\* The calendar moves back by a year.
YearEarlier ==
    /\ call = "none"
    /\ date[1] > FirstYear
    /\ date[3] <= 28
    /\ date' = <<date[1] - 1, date[2], date[3]>>
    /\ elapsed' = elapsed - DaysToNextYear(date')
    /\ UNCHANGED <<lon, lat, angle, call, ret, suncal, req>>

DaysSince2000Jan0 ==
    Call("daysSince2000Jan0",
         Returned(daysSince2000Jan0(date[1], date[2], date[3]), <<>>))

Julian == Call("julian", Returned(julian(date[1], date[2], date[3]), <<>>))

NextCal ==
    \/ Tomorrow
    \/ Yesterday
    \/ YearLater
    \/ YearEarlier
    \/ DaysSince2000Jan0
    \/ Julian

SpecCal == InitCal /\ [][NextCal]_vars

\* C8 as stated: for every date from 1801-01-01 to 2099-12-31,
\* daysSince2000Jan0 is the number of days elapsed since 1999-12-31 (so
\* 2000-01-01 maps to 1 and consecutive dates map to consecutive numbers).
C8_DaysSinceEpoch ==
    call = "daysSince2000Jan0" => ret.value = elapsed

\* C11: for every valid Gregorian date, julian returns the ordinal day of
\* the year: a value in [1, 366], at most 365 in a year that is not a leap
\* year, 1 for January 1, one more than for the day before within a year,
\* and 366 for December 31 exactly when the year is a Gregorian leap year.
C11_JulianOrdinal ==
    call = "julian" =>
        /\ ret.raised = "none"
        /\ ret.value >= 1 /\ ret.value <= 366
        /\ ~isleap(date[1]) => ret.value <= 365
        /\ (date[2] = 1 /\ date[3] = 1) => ret.value = 1
        /\ ~(date[2] = 1 /\ date[3] = 1) =>
              ret.value = julian(PrevDate(date)[1], PrevDate(date)[2],
                                 PrevDate(date)[3]) + 1
        /\ (date[2] = 12 /\ date[3] = 31) =>
              (ret.value = 366 <=>
                  (date[1] % 4 = 0
                      /\ (date[1] % 100 # 0 \/ date[1] % 400 = 0)))

\* C11 witness: the first of March of 1900, a century year that is not a
\* leap year, is day 60.
C11_Witness ==
    /\ call = "julian"
    /\ date = <<1900, 3, 1>>
    /\ ret.value = 60

\* ------------------------------------------------------------------------
\* src/index.py: the Suncal class and the cal handler (specification
\* SpecSuncal).  Times are in ticks of 1/S second: an hour of the solver,
\* in units of 1/S hour, is a whole number of ticks, and so is the second
\* that Suncal subtracts.
\* ------------------------------------------------------------------------

HourTicks == 3600 * S

MinuteTicks == 60 * S

DayTicks == 24 * HourTicks

\* An hour value of the solver, in ticks.
Ticks(time) == time * 3600

\* int(x) for x = t / unit: truncation towards zero.
Trunc(t, unit) == Sign(t) * (Abs(t) \div unit)

\* (time - (1.0 / 3600)) % 24; the result of % has the sign of 24.
SecondEarlier(time) == (time - S) % DayTicks

\* int(time), int(minute) and int(second) of Suncal.__addPoint, with
\* minute = 60 * (time - int(time)), second = 60 * (minute - int(minute)).
Clock(time) ==
    LET hour == Trunc(time, HourTicks)
        minute == time - hour * HourTicks
        second == minute - Trunc(minute, MinuteTicks) * MinuteTicks
    IN  <<hour, Trunc(minute, MinuteTicks), Trunc(second, S)>>

\* datetime(year, month, day, hour, minute, second) raises ValueError
\* unless hour is in 0..23, minute in 0..59 and second in 0..59.
ValidClock(c) == c[1] \in 0..23 /\ c[2] \in 0..59 /\ c[3] \in 0..59

\* Suncal.__addPoint on the object self; passed keeps the times the
\* method was called with.
addPoint(self, time, time2, dt, dt2, summary) ==
    IF self.raised # "none" THEN self
    ELSE IF ~ValidClock(Clock(time)) \/ ~ValidClock(Clock(time2))
    THEN [self EXCEPT !.raised = "ValueError",
                      !.passed = Append(@, <<time, time2>>)]
    ELSE [self EXCEPT
             !.v = Append(@, [summary |-> summary,
                              dtstart |-> <<dt, Clock(time)>>,
                              dtend |-> <<dt2, Clock(time2)>>]),
             !.passed = Append(@, <<time, time2>>)]

\* The calendar types that Suncal.__init__ names.
CalendarTypes ==
    {"sunRiseSet", "civilTwilight", "nauticalTwilight",
     "astronomicalTwilight", "aviationTime", "dayNightTime"}

\* f = getattr(Sun, cal, Sun.sunRiseSet), called: dayNightTime and every
\* other name that is no attribute of Sun fall back to Sun.sunRiseSet.
SunMethod(cal, dt, lon1, lat1) ==
    CASE cal = "civilTwilight" ->
            civilTwilight(dt[1], dt[2], dt[3], lon1, lat1)
      [] cal = "nauticalTwilight" ->
            nauticalTwilight(dt[1], dt[2], dt[3], lon1, lat1)
      [] cal = "astronomicalTwilight" ->
            astronomicalTwilight(dt[1], dt[2], dt[3], lon1, lat1)
      [] cal = "aviationTime" ->
            aviationTime(dt[1], dt[2], dt[3], lon1, lat1)
      [] cal = "dayLength" ->
            dayLength(dt[1], dt[2], dt[3], lon1, lat1)
      [] OTHER -> sunRiseSet(dt[1], dt[2], dt[3], lon1, lat1)

\* start and end of Suncal.__init__: the summaries of the two events.
StartSummary(cal) ==
    CASE cal = "sunRiseSet" -> "Sunrise"
      [] cal = "civilTwilight" -> "Civil dawn"
      [] cal = "nauticalTwilight" -> "Nautical dawn"
      [] cal = "astronomicalTwilight" -> "Astronomical dawn"
      [] cal = "aviationTime" -> "First launch"
      [] cal = "dayNightTime" -> "Daytime"
      [] OTHER -> "Start"

EndSummary(cal) ==
    CASE cal = "sunRiseSet" -> "Sunset"
      [] cal = "civilTwilight" -> "Civil dusk"
      [] cal = "nauticalTwilight" -> "Nautical dusk"
      [] cal = "astronomicalTwilight" -> "Astronomical dusk"
      [] cal = "aviationTime" -> "Last landing"
      [] cal = "dayNightTime" -> "Nightime"
      [] OTHER -> "End"

\* Suncal.__init__ before its loop.
NewSuncal(lat1, lon1, dt, days, cal) ==
    [cal |-> cal, lat |-> lat1, lon |-> lon1, d |-> dt, d2 |-> NextDate(dt),
     days |-> days, i |-> 0, v |-> <<>>, passed |-> <<>>, raised |-> "none"]

\* The two calls of __addPoint of an iteration, for the pairs rs and rs2
\* that f returned for self.d and self.d2.
LoopPoints(self, rs, rs2) ==
    IF self.cal = "dayNightTime"
    THEN addPoint(addPoint(self, Ticks(rs[1]), SecondEarlier(Ticks(rs[2])),
                           self.d, self.d, StartSummary(self.cal)),
                  Ticks(rs[2]), SecondEarlier(Ticks(rs2[1])),
                  self.d, self.d2, EndSummary(self.cal))
    ELSE addPoint(addPoint(self, Ticks(rs[1]), Ticks(rs[1]),
                           self.d, self.d, StartSummary(self.cal)),
                  Ticks(rs[2]), Ticks(rs[2]),
                  self.d, self.d, EndSummary(self.cal))

\* self.d += timedelta(days=1); self.d2 += timedelta(days=1)
LoopAdvance(self) ==
    IF self.raised # "none" THEN self
    ELSE [self EXCEPT !.d = NextDate(@), !.d2 = NextDate(@), !.i = @ + 1]

\* riseTime, setTime = f(...); riseTime2, setTime2 = f(...): an exception
\* of f ends the construction, and so does a value that is no pair.
LoopCalls(self, r, r2) ==
    IF r.raised # "none" THEN [self EXCEPT !.raised = r.raised]
    ELSE IF self.cal = "dayLength" THEN [self EXCEPT !.raised = "TypeError"]
    ELSE IF r2.raised # "none" THEN [self EXCEPT !.raised = r2.raised]
    ELSE LoopAdvance(LoopPoints(self, r.value, r2.value))

\* One iteration of the loop of Suncal.__init__.
LoopBody(self) ==
    LoopCalls(self, SunMethod(self.cal, self.d, self.lon, self.lat),
              SunMethod(self.cal, self.d2, self.lon, self.lat))

\* date - timedelta(days=n)
RECURSIVE DaysBefore(_, _)
DaysBefore(dt, n) == IF n = 0 THEN dt ELSE DaysBefore(PrevDate(dt), n - 1)

\* A parameter of the query string that is missing (None), or its value.
None == <<>>

Some(x) == <<x>>

\* float(x): TypeError for None.
FloatError(x) == x = None

\* The days of the calendar the cal handler asks for.
CalendarDays == 365

\* cal, lines 247-250: lon defaults to long, cal to type.
CalLon(r) == IF r.lon = None THEN r.long ELSE r.lon

CalType(r) == IF r.cal = "None" THEN r.type ELSE r.cal

\* cal, lines 251-255: the redirect, when lat or lon is missing.
CalRedirect(r) ==
    IF r.lat = None \/ CalLon(r) = None
    THEN [r EXCEPT !.status = 302, !.content_type = "text/plain",
                   !.location = ".", !.body = Append(@, "Found")]
    ELSE r

\* cal, lines 256-262: the default type, the content type and the
\* Content-Disposition header, whose float(lat), float(lon) raise TypeError
\* for None.
CalHeaders(r) ==
    IF FloatError(r.lat) \/ FloatError(CalLon(r))
    THEN [r EXCEPT !.content_type = "text/calendar",
                   !.raised = "TypeError", !.pc = "done"]
    ELSE [r EXCEPT !.content_type = "text/calendar",
                   !.disposition = "attachment", !.pc = "suncal"]

\* The type the handler passes to Suncal.
CalDefault(r) == IF CalType(r) = "None" THEN "sunRiseSet" ELSE CalType(r)

\* cal, lines 264-275: the calendar is written, gzipped if accepted; an
\* exception of Suncal ends the handler.
CalWrite(r, self) ==
    IF self.raised # "none" THEN [r EXCEPT !.raised = self.raised,
                                           !.pc = "done"]
    ELSE [r EXCEPT !.encoding = IF r.gzip THEN "gzip" ELSE "identity",
                   !.body = Append(@, "ical"),
                   !.returned = "OK", !.pc = "done"]

\* The argument grids of SpecSuncal: the latitudes except the poles (where
\* the fixed-point cosine is exactly 0 and the floating-point one is not),
\* and four start dates.
MaxDays == 2

SuncalLats == Lats \ {-90 * S, 90 * S}

SuncalDates == {<<2008, 2, 28>>, <<2008, 3, 20>>, <<2008, 6, 21>>,
                <<2008, 12, 31>>}

\* A request of the cal handler, before the handler runs.
NewRequest(lat1, lon1, long1, cal, type, gzip, today) ==
    [handler |-> "cal", lat |-> lat1, lon |-> lon1, long |-> long1,
     cal |-> cal, type |-> type, gzip |-> gzip, today |-> today,
     status |-> 200, content_type |-> "text/html", location |-> "",
     disposition |-> "", encoding |-> "", body |-> <<>>,
     raised |-> "none", returned |-> "", pc |-> "start"]

Requests ==
    {NewRequest(lat1, lon1, long1, cal, type, gzip, <<2008, 3, 15>>) :
        lat1 \in {None, Some(559328)},
        lon1 \in {None, Some(-31777)},
        long1 \in {None, Some(180 * S)},
        cal \in {"None", "dayNightTime"},
        type \in {"None", "civilTwilight"},
        gzip \in BOOLEAN}

\* Either a Suncal is constructed directly (as the __main__ block does), or
\* a request reaches the cal handler.
InitSuncal ==
    /\ date = <<2000, 1, 1>>
    /\ lon = 0
    /\ lat = 0
    /\ angle = 0
    /\ elapsed = 0
    /\ call = "none"
    /\ ret = NoCall
    /\ \/ /\ req = NoRequest
          /\ suncal \in {NewSuncal(lat1, lon1, dt, days, cal) :
                            lat1 \in SuncalLats, lon1 \in Lons,
                            dt \in SuncalDates, days \in 1..MaxDays,
                            cal \in CalendarTypes \cup {"dayLength"}}
       \/ /\ req \in Requests
          /\ suncal = NoSuncal

\* The cal handler up to the construction of the Suncal object.
CalHandler ==
    /\ req.handler = "cal"
    /\ req.pc = "start"
    /\ req' = CalHeaders(CalRedirect(req))
    /\ suncal' = IF req'.pc = "suncal"
                 THEN NewSuncal(req.lat[1], CalLon(req)[1],
                                DaysBefore(req.today, 30), CalendarDays,
                                CalDefault(req))
                 ELSE suncal
    /\ UNCHANGED <<date, lon, lat, angle, elapsed, call, ret>>

\* An iteration of the loop of Suncal.__init__.
SuncalLoop ==
    /\ suncal.cal # "none"
    /\ suncal.raised = "none"
    /\ suncal.i < suncal.days
    /\ suncal' = LoopBody(suncal)
    /\ UNCHANGED <<date, lon, lat, angle, elapsed, call, ret, req>>

\* The cal handler after the construction of the Suncal object.
CalRespond ==
    /\ req.handler = "cal"
    /\ req.pc = "suncal"
    /\ suncal.raised # "none" \/ suncal.i = suncal.days
    /\ req' = CalWrite(req, suncal)
    /\ UNCHANGED <<date, lon, lat, angle, elapsed, call, ret, suncal>>

NextSuncal ==
    \/ CalHandler
    \/ SuncalLoop
    \/ CalRespond

SpecSuncal == InitSuncal /\ [][NextSuncal]_vars

\* C15 as stated: for every calendar type, the construction of a Suncal
\* raises nothing, and every time passed to __addPoint yields an hour in
\* 0..23, a minute in 0..59 and a second in 0..59.
C15_ValidTimestamps ==
    suncal.cal \in CalendarTypes =>
        /\ suncal.raised = "none"
        /\ \A n \in DOMAIN suncal.passed :
              /\ ValidClock(Clock(suncal.passed[n][1]))
              /\ ValidClock(Clock(suncal.passed[n][2]))

\* C16 as stated: when cal is called with lat missing, or with both lon
\* and long missing, it answers with the 302 redirect to '.' and nothing
\* else: it writes 'Found' only, leaves the content type text/plain,
\* constructs no Suncal and raises no error.
C16_RedirectOnly ==
    (/\ req.handler = "cal"
     /\ req.pc = "done"
     /\ req.lat = None \/ (req.lon = None /\ req.long = None)) =>
        /\ req.status = 302
        /\ req.location = "."
        /\ req.body = <<"Found">>
        /\ req.content_type = "text/plain"
        /\ req.raised = "none"
        /\ suncal = NoSuncal

\* The seconds from 2000 Jan 0.0 to a timestamp <<date, <<h, m, s>> >>
\* (dates after 1900, where the day number is exact).
StampSeconds(st) ==
    daysSince2000Jan0(st[1][1], st[1][2], st[1][3]) * 86400
        + st[2][1] * 3600 + st[2][2] * 60 + st[2][3]

\* The rise time that the night event n ends before: that of the date of
\* its end, in ticks.
NextRise(n) ==
    Ticks(sunRiseSet(suncal.v[n].dtend[1][1], suncal.v[n].dtend[1][2],
                     suncal.v[n].dtend[1][3], suncal.lon,
                     suncal.lat).value[1])

\* All the rise and set values of a dayNightTime calendar are in [0, 24).
AllWithinDay ==
    /\ \A n \in DOMAIN suncal.passed :
          suncal.passed[n][1] >= 0 /\ suncal.passed[n][1] < DayTicks
    /\ \A n \in DOMAIN suncal.v :
          n % 2 = 0 => (NextRise(n) >= 0 /\ NextRise(n) < DayTicks)

\* C17 as stated: in dayNightTime mode, with all rise and set values in
\* [0, 24), the events are two per day, alternately Daytime and Nightime,
\* each ends one second before the next one starts, and no event ends
\* before it starts or after the following event starts.
C17_EventsTile ==
    (suncal.cal = "dayNightTime" /\ suncal.raised = "none"
        /\ AllWithinDay) =>
        /\ Len(suncal.v) = 2 * suncal.i
        /\ \A n \in DOMAIN suncal.v :
              /\ suncal.v[n].summary =
                    (IF n % 2 = 1 THEN "Daytime" ELSE "Nightime")
              /\ StampSeconds(suncal.v[n].dtend)
                    >= StampSeconds(suncal.v[n].dtstart)
              /\ n < Len(suncal.v) =>
                    /\ StampSeconds(suncal.v[n].dtend)
                          = StampSeconds(suncal.v[n + 1].dtstart) - 1
                    /\ StampSeconds(suncal.v[n].dtend)
                          <= StampSeconds(suncal.v[n + 1].dtstart)

====
